---- MODULE Spec2Model ----
(***************************************************************************)
(* pipe2py/compile.py: parse_pipe_def turns a pipe document (modules and   *)
(* wires) into the internal pipe (modules, embed, graph, wires);           *)
(* build_pipeline and stringify_pipe walk the topologically sorted graph   *)
(* and plumb each module's inputs from the wires.                          *)
(*                                                                         *)
(* Strings are atoms here, so the string functions the code uses           *)
(* (util.pythonise, str.startswith) are tables over the names that occur.  *)
(* A step object is named by the key it is stored under in `steps`         *)
(* ("forever" or a module id), as is an Id(...) of the generated text.     *)
(***************************************************************************)
EXTENDS Integers, Sequences, FiniteSets, TLC

\* ------------------------------------------------------------------ bounds
MaxModules == 3
MaxWires == 2
MaxPosition == 1

\* ------------------------------------------------------------- the inputs
\* Raw module ids of a document; "c-1" and "c_1" are distinct raw names.
RawIds == {"a", "b", "c-1", "c_1"}
\* The id the i-th module of a document has when ids are taken in order.
IdPool == <<"a", "b", "c-1", "c_1">>
SrcPorts == {"_OUTPUT", "_OUTPUT2", "tap"}
TgtPorts == {"_INPUT", "aux"}
Positions == 0..MaxPosition

NoEmbed == [id |-> "", type |-> ""]
\* module['conf'] of a module with no prompt and no embedded module
PlainConf == [prompt |-> FALSE, position |-> 0, embed |-> NoEmbed]
PromptConf(p) == [prompt |-> TRUE, position |-> p, embed |-> NoEmbed]
LoopConf(e) == [prompt |-> FALSE, position |-> 0, embed |-> e]

Module(id, type, conf) == [id |-> id, type |-> type, conf |-> conf]
Wire(id, sm, sp, tm, tp) ==
    [id |-> id, src |-> [moduleid |-> sm, id |-> sp],
     tgt |-> [moduleid |-> tm, id |-> tp]]

\* The id of the i-th wire of a document: wire ids are distinct.
WireIdPool == <<"w1", "w2", "w3", "w4">>

\* ---------------------------------------------------------------- helpers
Range(s) == {s[i] : i \in DOMAIN s}
SeqsUpTo(S, n) == UNION {[1..k -> S] : k \in 0..n}
Put(f, k, v) == [x \in (DOMAIN f) \cup {k} |-> IF x = k THEN v ELSE f[x]]
EmptyMap == [x \in {} |-> 0]
Perms(S) == {s \in [1..Cardinality(S) -> S] : Range(s) = S}
PosOf(s, x) == CHOOSE i \in DOMAIN s : s[i] = x

\* -------------------------------------------------- util.pythonise (table)
\* '-', ':' and '/' become '_'; the names below are the ones that occur.
pythonise(id) ==
    CASE id = "c-1" -> "c_1"
      [] id = "pipe:p" -> "pipe_p"
      [] id = "pipe:q" -> "pipe_q"
      [] OTHER -> id

\* str.startswith over the port ids and type tags that occur
startswith(s, prefix) ==
    <<s, prefix>> \in {<<"_OUTPUT", "_OUTPUT">>, <<"_OUTPUT2", "_OUTPUT">>,
                       <<"pipe:p", "pipe:">>, <<"pipe:q", "pipe:">>}

\* ------------------------------------------------------- parse_pipe_def
EmptyPipe == [modules |-> EmptyMap, embed |-> {}, graph |-> EmptyMap,
              wires |-> <<>>]

\* the body of `for module in modules` (lines 75-87)
RegisterModule(pipe, module) ==
    LET mid == pythonise(module.id)
        p1 == [pipe EXCEPT !.modules = Put(@, mid, module),
                           !.graph = Put(@, mid, <<>>)]
    IN  IF module.type = "loop"
        THEN LET embed == Module(module.conf.embed.id, module.conf.embed.type,
                                 PlainConf)
                 eid == pythonise(embed.id)
                 g2 == Put(p1.graph, eid, <<>>)
             IN  [p1 EXCEPT !.modules = Put(@, eid, embed),
                            !.embed = @ \cup {eid},
                            !.graph = Put(g2, eid, Append(g2[eid], mid))]
        ELSE p1

RECURSIVE RegisterModules(_, _)
RegisterModules(pipe, modules) ==
    IF modules = <<>> THEN pipe
    ELSE RegisterModules(RegisterModule(pipe, Head(modules)), Tail(modules))

\* pipe['graph'][src] of line 95 raises KeyError when src is no graph node
WireSourceMissing(graph, wires) ==
    \E i \in DOMAIN wires : pythonise(wires[i].src.moduleid) \notin DOMAIN graph

\* `for wire in wires` (lines 94-96), when no lookup raises
RECURSIVE AddEdges(_, _)
AddEdges(graph, wires) ==
    IF wires = <<>> THEN graph
    ELSE LET src == pythonise(Head(wires).src.moduleid)
             tgt == pythonise(Head(wires).tgt.moduleid)
         IN  AddEdges([graph EXCEPT ![src] = Append(@, tgt)], Tail(wires))

\* IsOrphan without the `targetted` test of line 100
IsOrphanNoTargetTest(graph, node) == graph[node] = <<>>

\* "Remove any orphan nodes" (lines 98-102): a node goes when it has no
\* successor and is no successor; deleting such a node changes neither test
\* for another node, so the order of pipe['graph'].keys() does not matter.
IsOrphan(graph, node) ==
    /\ graph[node] = <<>>
    /\ ~ \E k \in DOMAIN graph : node \in Range(graph[k])

PruneOrphans(graph) ==
    LET keep == {n \in DOMAIN graph : ~ IsOrphan(graph, n)}
    IN  [n \in keep |-> graph[n]]

\* The pipe parse_pipe_def returns for modules and wires, before the wire
\* table is filled.
ParsedGraph(document) ==
    LET p == RegisterModules(EmptyPipe, document.modules)
    IN  [p EXCEPT !.graph = PruneOrphans(AddEdges(p.graph, document.wires))]

\* The items of pipe['wires'] (lines 104-105) in the order a `for wire in
\* pipe['wires']` meets them: a dict keeps no insertion order, so any order
\* of the (distinct) wire ids can be the one.
WireOrders(wires) ==
    {[i \in DOMAIN wires |-> wires[perm[i]]] : perm \in Perms(DOMAIN wires)}

\* --------------------------------------- topsort.topological_sort (contract)
\* Every total order of the graph's nodes that puts each node before its
\* successors; none when the graph has a cycle or names a successor that is
\* no node.
TopologicalOrders(graph) ==
    IF \E k \in DOMAIN graph : ~ (Range(graph[k]) \subseteq DOMAIN graph)
    THEN {}
    ELSE {s \in Perms(DOMAIN graph) :
            \A u \in DOMAIN graph : \A v \in Range(graph[u]) :
                PosOf(s, u) < PosOf(s, v)}

\* ------------------------------------------------- the walk's first pass
\* The declared-input tuple of lines 136-142 / 275-281, cut to (position,
\* name); the module's id stands for its conf name.
InputTuple(module) == <<module.conf.position, module.id>>

NameRank(name) ==
    CASE name = "a" -> 0 [] name = "b" -> 1 [] name = "c-1" -> 2 [] OTHER -> 3

\* tuple comparison, as sorted() compares: position, then name
TupleLess(s, t) ==
    \/ s[1] < t[1]
    \/ s[1] = t[1] /\ NameRank(s[2]) < NameRank(t[2])

RECURSIVE Insert(_, _)
Insert(sortedSeq, t) ==
    IF sortedSeq = <<>> THEN <<t>>
    ELSE IF TupleLess(t, Head(sortedSeq)) THEN <<t>> \o sortedSeq
    ELSE <<Head(sortedSeq)>> \o Insert(Tail(sortedSeq), t)

\* sorted that leaves the list as collected
AsCollected(list) == list

RECURSIVE sorted(_)
sorted(list) ==
    IF list = <<>> THEN <<>>
    ELSE Insert(sorted(SubSeq(list, 1, Len(list) - 1)), list[Len(list)])

\* pyinput after the first pass (lines 124-143 with describe_input set, and
\* lines 267-282)
RECURSIVE CollectInputs(_, _)
CollectInputs(pipe, sequence) ==
    IF sequence = <<>> THEN <<>>
    ELSE LET module == pipe.modules[Head(sequence)]
         IN  (IF module.conf.prompt THEN <<InputTuple(module)>> ELSE <<>>)
                 \o CollectInputs(pipe, Tail(sequence))

\* CollectImports that skips a type already imported
RECURSIVE CollectImportsOnce(_, _)
CollectImportsOnce(pipe, sequence) ==
    IF sequence = <<>> THEN <<>>
    ELSE LET module == pipe.modules[sequence[Len(sequence)]]
             earlier == CollectImportsOnce(pipe, SubSeq(sequence, 1, Len(sequence) - 1))
         IN  IF startswith(module.type, "pipe:")
                /\ pythonise(module.type) \notin Range(earlier)
             THEN Append(earlier, pythonise(module.type))
             ELSE earlier

\* the import lines the first pass of stringify_pipe emits (lines 270-271)
RECURSIVE CollectImports(_, _)
CollectImports(pipe, sequence) ==
    IF sequence = <<>> THEN <<>>
    ELSE LET module == pipe.modules[Head(sequence)]
         IN  (IF startswith(module.type, "pipe:")
              THEN <<pythonise(module.type)>> ELSE <<>>)
                 \o CollectImports(pipe, Tail(sequence))

\* ------------------------------------------------------ the wiring lookups
\* IsDefaultInputWire without the source port test of line 170 / 320
IsDefaultInputWireAnyPort(wire, module_id) ==
    /\ pythonise(wire.tgt.moduleid) = module_id
    /\ wire.tgt.id = "_INPUT"

IsDefaultInputWire(wire, module_id) ==
    /\ pythonise(wire.tgt.moduleid) = module_id
    /\ wire.tgt.id = "_INPUT"
    /\ startswith(wire.src.id, "_OUTPUT")

IsExtraInputWire(wire, module_id) ==
    /\ pythonise(wire.tgt.moduleid) = module_id
    /\ wire.tgt.id # "_INPUT"
    /\ startswith(wire.src.id, "_OUTPUT")

\* "find the default input of this module" (lines 161-174, 311-322): the key
\* of the step input_module ends as, starting from `input_module`
RECURSIVE DefaultInput(_, _, _)
DefaultInput(wires, module_id, input_module) ==
    IF wires = <<>> THEN input_module
    ELSE DefaultInput(Tail(wires), module_id,
                      IF IsDefaultInputWire(Head(wires), module_id)
                      THEN pythonise(Head(wires).src.moduleid)
                      ELSE input_module)

\* The same loop in build_pipeline (lines 161-174), where each match reads
\* steps[...]: the loop ends at the first key `keys` lacks (raised), with
\* input_module as it was then.
RECURSIVE DefaultLookup(_, _, _, _)
DefaultLookup(wires, module_id, input_module, keys) ==
    IF wires = <<>> THEN [input_module |-> input_module, raised |-> FALSE]
    ELSE IF IsDefaultInputWire(Head(wires), module_id)
    THEN LET src == pythonise(Head(wires).src.moduleid)
         IN  IF src \in keys
             THEN DefaultLookup(Tail(wires), module_id, src, keys)
             ELSE [input_module |-> input_module, raised |-> TRUE]
    ELSE DefaultLookup(Tail(wires), module_id, input_module, keys)

\* kargs of build_pipeline after lines 187-199: a dict, a later wire to the
\* same port replaces the earlier entry
RECURSIVE ExtraKargs(_, _, _)
ExtraKargs(wires, module_id, kargs) ==
    IF wires = <<>> THEN kargs
    ELSE ExtraKargs(Tail(wires), module_id,
                    IF IsExtraInputWire(Head(wires), module_id)
                    THEN Put(kargs, pythonise(Head(wires).tgt.id),
                             pythonise(Head(wires).src.moduleid))
                    ELSE kargs)

\* mod_kwargs of stringify_pipe after lines 335-350: a list, every wire adds
\* an entry
RECURSIVE ExtraKwargs(_, _)
ExtraKwargs(wires, module_id) ==
    IF wires = <<>> THEN <<>>
    ELSE (IF IsExtraInputWire(Head(wires), module_id)
          THEN << <<pythonise(Head(wires).tgt.id),
                    pythonise(Head(wires).src.moduleid)>> >>
          ELSE <<>>) \o ExtraKwargs(Tail(wires), module_id)

\* the keys steps[...] is read under for the extra inputs of module_id
\* (line 198)
ExtraReads(pipe, module_id) ==
    {pythonise(pipe.wires[i].src.moduleid) :
        i \in {j \in DOMAIN pipe.wires :
                  IsExtraInputWire(pipe.wires[j], module_id)}}

\* the key steps[...] is read under for the embedded module of a loop
\* (lines 202-204)
EmbedReads(pipe, module_id) ==
    IF pipe.modules[module_id].type = "loop"
    THEN {pythonise(pipe.modules[module_id].conf.embed.id)} ELSE {}

\* filter(lambda x: ... x['src'] ..., pipe['wires']) (lines 207-212, 359-364)
\* iterates the dict's keys, which are strings: x['src'] raises TypeError
\* for the first key, and only an empty wire table gives a count, 0.
SplitsItems(pipe) == [i \in DOMAIN pipe.wires |-> pythonise(pipe.wires[i].id)]
SplitsRaises(pipe) == SplitsItems(pipe) # <<>>
\* len(list(filtered)) when nothing raised: no key was there to keep
Splits(pipe, module_id) ==
    Len(SelectSeq(SplitsItems(pipe), LAMBDA x : FALSE))

\* The exception that ends build_pipeline at module_id ("" when none):
\* the failed lookups in the order the code makes them, the assert of lines
\* 177-179 that compares input_module to a pair and so fails for every
\* embedded module, and the TypeError of the split count.
BuildError(pipe, steps, module_id) ==
    LET module == pipe.modules[module_id]
    IN  IF DefaultLookup(pipe.wires, module_id, "forever", DOMAIN steps).raised
        THEN "KeyError"
        ELSE IF module_id \in pipe.embed THEN "AssertionError"
        ELSE IF ~ (ExtraReads(pipe, module_id) \subseteq DOMAIN steps)
        THEN "KeyError"
        ELSE IF ~ (EmbedReads(pipe, module_id) \subseteq DOMAIN steps)
        THEN "KeyError"
        ELSE IF module.type = "split" /\ SplitsRaises(pipe) THEN "TypeError"
        ELSE ""

\* The exception that ends stringify_pipe at module_id ("" when none): the
\* assert of lines 325-327 reads `steps`, a name stringify_pipe never binds.
StringifyError(pipe, module_id) ==
    LET module == pipe.modules[module_id]
    IN  IF module_id \in pipe.embed THEN "NameError"
        ELSE IF module.type = "split" /\ SplitsRaises(pipe) THEN "TypeError"
        ELSE ""

\* the step module_ref(*pargs, **kargs) of line 238 is built from
BuiltStep(pipe, steps, module_id) ==
    LET module == pipe.modules[module_id]
    IN  [type |-> module.type,
         input |-> DefaultLookup(pipe.wires, module_id, "forever",
                                 DOMAIN steps).input_module,
         kargs |-> ExtraKargs(pipe.wires, module_id, EmptyMap),
         embed |-> IF module.type = "loop"
                   THEN <<pythonise(module.conf.embed.id)>> ELSE <<>>,
         splits |-> IF module.type = "split"
                    THEN <<Splits(pipe, module_id)>> ELSE <<>>]

\* the statement of lines 387-396: the module id it binds, the constructor,
\* the default input and the keyword arguments after conf, in order
Statement(pipe, module_id) ==
    LET module == pipe.modules[module_id]
    IN  [module_id |-> module_id,
         type |-> module.type,
         input |-> DefaultInput(pipe.wires, module_id, "forever"),
         kwargs |-> ExtraKwargs(pipe.wires, module_id),
         embed |-> IF module.type = "loop"
                   THEN <<pythonise(module.conf.embed.id)>> ELSE <<>>,
         splits |-> IF module.type = "split"
                    THEN <<Splits(pipe, module_id)>> ELSE <<>>]

\* ------------------------------------------------------------ documents
Kind(type, conf) == [type |-> type, conf |-> conf]

\* modules whose ids are taken in order from IdPool, one kind each
ModuleLists(kinds) ==
    {[i \in DOMAIN ks |-> Module(IdPool[i], ks[i].type, ks[i].conf)] :
        ks \in SeqsUpTo(kinds, MaxModules)}

\* wires between the given (source, target) module ids and ports, ids taken
\* in order from WireIdPool
WireLists(ends, srcPorts, tgtPorts) ==
    LET choices == ends \X srcPorts \X tgtPorts
    IN  {[i \in DOMAIN cs |->
             Wire(WireIdPool[i], cs[i][1][1], cs[i][2], cs[i][1][2], cs[i][3])] :
            cs \in SeqsUpTo(choices, MaxWires)}

Documents(moduleLists, wireLists) ==
    {[modules |-> ms, wires |-> ws] : ms \in moduleLists, ws \in wireLists}

\* Documents that repeat a canonical id, leave a wire dangling, close a cycle
\* or embed a module in a loop: any raw id for a module, default ports only.
LoopIds == {"a", "b"}
EmbedIds == {"c-1"}
StructureModules ==
    {Module(id, "fetch", PlainConf) : id \in RawIds}
        \cup {Module(l, "loop", LoopConf([id |-> e, type |-> "fetch"])) :
                l \in LoopIds, e \in EmbedIds}
StructureEnds == {<<"a", "b">>, <<"b", "a">>, <<"b", "c-1">>}
StructureDocuments ==
    Documents(SeqsUpTo(StructureModules, MaxModules),
              WireLists(StructureEnds, {"_OUTPUT"}, {"_INPUT"}))

\* Documents that vary the ports of the wires along a chain of modules.
WiringKinds == {Kind("fetch", PlainConf), Kind("split", PlainConf)}
WiringEnds == {<<"a", "b">>, <<"b", "c-1">>}
WiringDocuments ==
    Documents(ModuleLists(WiringKinds),
              WireLists(WiringEnds, SrcPorts, TgtPorts))

\* Documents that vary the type tags and the prompts; a wire runs from a
\* module to a later one of the list.
TypedKinds ==
    {Kind("fetch", PlainConf), Kind("pipe:p", PlainConf),
     Kind("pipe:q", PlainConf)}
        \cup {Kind("textinput", PromptConf(p)) : p \in Positions}
TypedEnds == {<<"a", "b">>, <<"a", "c-1">>}
TypedDocuments ==
    Documents(ModuleLists(TypedKinds),
              WireLists(TypedEnds, {"_OUTPUT"}, {"_INPUT"}))

\* ------------------------------------------------------------------ state
VARIABLES
    document,         \* pipe_def, the argument of parse_pipe_def
    pipe,             \* the pipe parse_pipe_def returned
    pc,               \* "start", "parsed", "walk", "done" or "failed"
    backend,          \* "", "build" or "stringify"
    describe_input,   \* context.describe_input
    module_sequence,  \* topological_sort(pipe['graph'])
    walked,           \* how many modules the main loop has finished
    module_id,        \* the loop variable ("" while unbound)
    input_module,     \* the local of that name after the last lookup
    steps,            \* build_pipeline's steps
    imports,          \* the import lines of pypipe
    statements,       \* the module statements of pypipe, in order
    inputs,           \* sorted(pyinput) as returned or rendered
    returned,         \* the key of the step returned / named by `return`
    error             \* the exception that ended the call ("" when none)

vars == <<document, pipe, pc, backend, describe_input, module_sequence,
          walked, module_id, input_module, steps, imports, statements,
          inputs, returned, error>>

InitWith(documents) ==
    /\ document \in documents
    /\ pipe = EmptyPipe
    /\ pc = "start"
    /\ backend = ""
    /\ describe_input = FALSE
    /\ module_sequence = <<>>
    /\ walked = 0
    /\ module_id = ""
    /\ input_module = ""
    /\ steps = EmptyMap
    /\ imports = <<>>
    /\ statements = <<>>
    /\ inputs = <<>>
    /\ returned = ""
    /\ error = ""

Init == InitWith(StructureDocuments)
InitWiring == InitWith(WiringDocuments)
InitTyped == InitWith(TypedDocuments)

Fail(exception) ==
    /\ pc' = "failed"
    /\ error' = exception

\* parse_pipe_def (lines 52-107)
ParsePipeDef ==
    /\ pc = "start"
    /\ LET registered == RegisterModules(EmptyPipe, document.modules)
       IN  IF WireSourceMissing(registered.graph, document.wires)
           THEN /\ Fail("KeyError")
                /\ pipe' = pipe
           ELSE /\ \E order \in WireOrders(document.wires) :
                     pipe' = [ParsedGraph(document) EXCEPT !.wires = order]
                /\ pc' = "parsed"
                /\ error' = error
    /\ UNCHANGED <<document, backend, describe_input, module_sequence, walked,
                   module_id, input_module, steps, imports, statements,
                   inputs, returned>>

LastOf(sequence) == IF sequence = <<>> THEN "" ELSE sequence[Len(sequence)]

\* build_pipeline up to its main loop (lines 119-152): the sort, the first
\* pass and, with describe_input, the return of the declared inputs
BuildStart ==
    /\ pc = "parsed"
    /\ backend' = "build"
    /\ \E describe \in BOOLEAN :
        /\ describe_input' = describe
        /\ IF TopologicalOrders(pipe.graph) = {}
           THEN /\ Fail("SortError")
                /\ UNCHANGED <<module_sequence, module_id, steps, inputs>>
           ELSE \E order \in TopologicalOrders(pipe.graph) :
                /\ module_sequence' = order
                /\ module_id' = LastOf(order)
                /\ error' = error
                /\ IF describe
                   THEN /\ inputs' = sorted(CollectInputs(pipe, order))
                        /\ pc' = "done"
                        /\ steps' = steps
                   ELSE /\ inputs' = inputs
                        /\ pc' = "walk"
                        /\ steps' = Put(EmptyMap, "forever",
                                        [type |-> "forever", input |-> "",
                                         kargs |-> EmptyMap, embed |-> <<>>,
                                         splits |-> <<>>])
    /\ UNCHANGED <<document, pipe, walked, input_module, imports, statements,
                   returned>>

\* one turn of the main loop of build_pipeline (lines 154-242)
BuildStep ==
    /\ pc = "walk"
    /\ backend = "build"
    /\ walked < Len(module_sequence)
    /\ LET m == module_sequence[walked + 1]
           exception == BuildError(pipe, steps, m)
       IN  /\ module_id' = m
           /\ input_module' =
                 DefaultLookup(pipe.wires, m, "forever", DOMAIN steps).input_module
           /\ IF exception # ""
              THEN /\ Fail(exception)
                   /\ UNCHANGED <<steps, walked>>
              ELSE /\ steps' = Put(steps, m, BuiltStep(pipe, steps, m))
                   /\ walked' = walked + 1
                   /\ UNCHANGED <<pc, error>>
    /\ UNCHANGED <<document, pipe, backend, describe_input, module_sequence,
                   imports, statements, inputs, returned>>

\* return steps[module_id] (line 244); module_id is unbound when no module
\* was scheduled
BuildReturn ==
    /\ pc = "walk"
    /\ backend = "build"
    /\ walked = Len(module_sequence)
    /\ IF module_id = ""
       THEN /\ Fail("NameError")
            /\ returned' = returned
       ELSE /\ returned' = module_id
            /\ pc' = "done"
            /\ error' = error
    /\ UNCHANGED <<document, pipe, backend, describe_input, module_sequence,
                   walked, module_id, input_module, steps, imports,
                   statements, inputs>>

\* stringify_pipe up to its main loop (lines 254-303)
StringifyStart ==
    /\ pc = "parsed"
    /\ backend' = "stringify"
    /\ IF TopologicalOrders(pipe.graph) = {}
       THEN /\ Fail("SortError")
            /\ UNCHANGED <<module_sequence, imports, inputs>>
       ELSE \E order \in TopologicalOrders(pipe.graph) :
            /\ module_sequence' = order
            /\ imports' = CollectImports(pipe, order)
            /\ inputs' = sorted(CollectInputs(pipe, order))
            /\ pc' = "walk"
            /\ error' = error
    /\ UNCHANGED <<document, pipe, describe_input, walked, module_id,
                   input_module, steps, statements, returned>>

\* one turn of the main loop of stringify_pipe (lines 305-420)
StringifyStep ==
    /\ pc = "walk"
    /\ backend = "stringify"
    /\ walked < Len(module_sequence)
    /\ LET m == module_sequence[walked + 1]
           exception == StringifyError(pipe, m)
       IN  /\ module_id' = m
           /\ input_module' = DefaultInput(pipe.wires, m, "forever")
           /\ IF exception # ""
              THEN /\ Fail(exception)
                   /\ UNCHANGED <<statements, walked>>
              ELSE /\ statements' = Append(statements, Statement(pipe, m))
                   /\ walked' = walked + 1
                   /\ UNCHANGED <<pc, error>>
    /\ UNCHANGED <<document, pipe, backend, describe_input, module_sequence,
                   steps, imports, inputs, returned>>

\* the closing `return` statement (line 422): prev_module, [] when no
\* module was scheduled
StringifyReturn ==
    /\ pc = "walk"
    /\ backend = "stringify"
    /\ walked = Len(module_sequence)
    /\ returned' = (IF statements = <<>> THEN "[]"
                    ELSE statements[Len(statements)].module_id)
    /\ pc' = "done"
    /\ UNCHANGED <<document, pipe, backend, describe_input, module_sequence,
                   walked, module_id, input_module, steps, imports,
                   statements, inputs, error>>

Next ==
    \/ ParsePipeDef
    \/ BuildStart
    \/ BuildStep
    \/ BuildReturn
    \/ StringifyStart
    \/ StringifyStep
    \/ StringifyReturn

Spec == Init /\ [][Next]_vars
SpecWiring == InitWiring /\ [][Next]_vars
SpecTyped == InitTyped /\ [][Next]_vars

\* ============================================================== claims
\* parse_pipe_def returned a pipe
PipeReturned == pc # "start" /\ ~ (pc = "failed" /\ backend = "")
\* a backend has sorted the graph and made its first pass
Sorted(b) == backend = b /\ pc # "parsed" /\ error # "SortError"

\* every module definition of the document, the embedded ones included
Definitions ==
    LET top == document.modules
        loops == SelectSeq(top, LAMBDA m : m.type = "loop")
    IN  top \o [i \in DOMAIN loops |->
                   Module(loops[i].conf.embed.id, loops[i].conf.embed.type,
                          PlainConf)]
DefinedIds == {pythonise(Definitions[i].id) : i \in DOMAIN Definitions}
IsLoopId(m) ==
    \E i \in DOMAIN document.modules :
        /\ document.modules[i].type = "loop"
        /\ pythonise(document.modules[i].id) = m
IsEmbeddedId(m) ==
    \E i \in DOMAIN document.modules :
        /\ document.modules[i].type = "loop"
        /\ pythonise(document.modules[i].conf.embed.id) = m
IsWired(m) ==
    \E i \in DOMAIN document.wires :
        \/ pythonise(document.wires[i].src.moduleid) = m
        \/ pythonise(document.wires[i].tgt.moduleid) = m
IsDefaultOutput(port) == port \in {"_OUTPUT", "_OUTPUT2"}
HasDefaultInputWire(m) ==
    \E i \in DOMAIN document.wires :
        /\ pythonise(document.wires[i].tgt.moduleid) = m
        /\ document.wires[i].tgt.id = "_INPUT"
        /\ IsDefaultOutput(document.wires[i].src.id)
\* the walk is past the k-th scheduled module, or ended at it
Assembled(k) == k <= walked
EndedAt(k) == pc = "failed" /\ error # "SortError" /\ k = walked + 1
\* the default input the backend bound the assembled module m to
BoundInput(m) ==
    IF backend = "build" THEN steps[m].input
    ELSE LET i == CHOOSE j \in DOMAIN statements : statements[j].module_id = m
         IN  statements[i].input
BoundSplits(m) ==
    IF backend = "build" THEN steps[m].splits
    ELSE LET i == CHOOSE j \in DOMAIN statements : statements[j].module_id = m
         IN  statements[i].splits

\* C1: after parse_pipe_def, a module id that no wire names and that the
\* document neither defines as a loop nor embeds in one has no graph node and
\* is not scheduled, yet is a key of pipe['modules']; a module id that a wire
\* names as source or target keeps its graph node.
C1_OrphanPruning ==
    PipeReturned =>
        \A m \in DefinedIds :
            /\ m \in DOMAIN pipe.modules
            /\ (~ IsWired(m) /\ ~ IsLoopId(m) /\ ~ IsEmbeddedId(m))
                   => m \notin DOMAIN pipe.graph /\ m \notin Range(module_sequence)
            /\ IsWired(m) => m \in DOMAIN pipe.graph

C1_Witness ==
    /\ pc = "done"
    /\ module_sequence # <<>>
    /\ \E m \in DefinedIds :
        /\ ~ IsWired(m) /\ ~ IsLoopId(m) /\ ~ IsEmbeddedId(m)
        /\ m \in DOMAIN pipe.modules
        /\ m \notin DOMAIN pipe.graph
    /\ \E m \in DefinedIds :
        /\ IsWired(m)
        /\ pipe.graph[m] = <<>>

\* C2: for every split module of the scheduled order that a backend has
\* worked out `splits` for, the value is the number of wires that leave the
\* module from a default-output port.
FanOut(m) ==
    Cardinality({i \in DOMAIN document.wires :
                    /\ pythonise(document.wires[i].src.moduleid) = m
                    /\ IsDefaultOutput(document.wires[i].src.id)})

C2_FanOutCount ==
    \A k \in DOMAIN module_sequence :
        LET m == module_sequence[k]
        IN  (/\ pipe.modules[m].type = "split"
             /\ Assembled(k) \/ (EndedAt(k) /\ error = "TypeError"))
                => Assembled(k) /\ BoundSplits(m) = <<FanOut(m)>>

\* C3: a backend that reaches an embedded module binds its input to the
\* placeholder "_INPUT" and completes the module normally, whatever wire
\* targets the module's "_INPUT".
C3_EmbeddedPlaceholder ==
    \A k \in DOMAIN module_sequence :
        LET m == module_sequence[k]
        IN  (m \in pipe.embed /\ (Assembled(k) \/ EndedAt(k)))
                => Assembled(k) /\ BoundInput(m) = "_INPUT"

\* C4: for every scheduled module that no wire targets at "_INPUT" from a
\* default-output port, the default input a backend resolves, and the one it
\* binds the module to, is the forever step.
C4_DefaultsToForever ==
    \A k \in DOMAIN module_sequence :
        LET m == module_sequence[k]
        IN  ~ HasDefaultInputWire(m) =>
                /\ Assembled(k) => BoundInput(m) = "forever"
                /\ EndedAt(k) => input_module = "forever"

C4_Witness ==
    /\ backend = "build"
    /\ pc = "done"
    /\ \E m \in DOMAIN steps \ {"forever"} :
        /\ ~ HasDefaultInputWire(m)
        /\ \E i \in DOMAIN document.wires :
            /\ pythonise(document.wires[i].tgt.moduleid) = m
            /\ document.wires[i].tgt.id = "_INPUT"
        /\ steps[m].input = "forever"
    /\ \E m \in DOMAIN steps \ {"forever"} :
        /\ HasDefaultInputWire(m)
        /\ steps[m].input # "forever"

\* C5: parse_pipe_def returns no pipe for a document with a wire whose
\* source or target names no module of the document, and never a pipe whose
\* graph has a successor that is no key of pipe['modules'].
C5_DanglingWireRejected ==
    PipeReturned =>
        /\ \A i \in DOMAIN document.wires :
            /\ pythonise(document.wires[i].src.moduleid) \in DefinedIds
            /\ pythonise(document.wires[i].tgt.moduleid) \in DefinedIds
        /\ \A n \in DOMAIN pipe.graph :
            Range(pipe.graph[n]) \subseteq DOMAIN pipe.modules

\* C6: parse_pipe_def returns no pipe for a document in which two module
\* definitions (top-level or embedded) have the same canonical id.
C6_DuplicateIdRejected ==
    PipeReturned =>
        \A i, j \in DOMAIN Definitions :
            i # j => pythonise(Definitions[i].id) # pythonise(Definitions[j].id)

\* C7: for every assembled module and every auxiliary port, each backend
\* binds the port once, to the source of the last wire in wire iteration
\* order that targets the port from a default-output port.
LastSource(m, port) ==
    LET hits == {i \in DOMAIN pipe.wires :
                    /\ pythonise(pipe.wires[i].tgt.moduleid) = m
                    /\ pythonise(pipe.wires[i].tgt.id) = port
                    /\ IsDefaultOutput(pipe.wires[i].src.id)}
        last == CHOOSE i \in hits : \A j \in hits : j <= i
    IN  IF hits = {} THEN <<>> ELSE <<pythonise(pipe.wires[last].src.moduleid)>>
AuxPorts == {pythonise(port) : port \in TgtPorts \ {"_INPUT"}}

C7_AuxiliaryBoundOnce ==
    /\ backend = "build" =>
        \A m \in DOMAIN steps \ {"forever"} : \A port \in AuxPorts :
            LastSource(m, port) =
                (IF port \in DOMAIN steps[m].kargs
                 THEN <<steps[m].kargs[port]>> ELSE <<>>)
    /\ backend = "stringify" =>
        \A i \in DOMAIN statements : \A port \in AuxPorts :
            LastSource(statements[i].module_id, port) =
                [j \in 1..Len(SelectSeq(statements[i].kwargs,
                                        LAMBDA kw : kw[1] = port)) |->
                    SelectSeq(statements[i].kwargs,
                              LAMBDA kw : kw[1] = port)[j][2]]

\* C8 as claimed: the preamble has one import per distinct sub-pipeline
\* type of the scheduled modules, in order of first appearance.
ScheduledSubPipes ==
    {k \in DOMAIN module_sequence :
        pipe.modules[module_sequence[k]].type \in {"pipe:p", "pipe:q"}}
ImportOf(k) == pythonise(pipe.modules[module_sequence[k]].type)
FirstOfType == {k \in ScheduledSubPipes :
                    \A j \in ScheduledSubPipes : ImportOf(j) = ImportOf(k) => k <= j}

C8_OneImportPerType ==
    Sorted("stringify") =>
        /\ Len(imports) = Cardinality(FirstOfType)
        /\ \A k \in FirstOfType :
            imports[Cardinality({j \in FirstOfType : j <= k})] = ImportOf(k)

\* C8 as amended: the preamble has one import per scheduled module whose
\* type starts with "pipe:", in module order, so two modules of the same
\* sub-pipeline give two equal import lines.
C8_OneImportPerModule ==
    Sorted("stringify") =>
        /\ Len(imports) = Cardinality(ScheduledSubPipes)
        /\ \A k \in ScheduledSubPipes :
            imports[Cardinality({j \in ScheduledSubPipes : j <= k})] = ImportOf(k)

C8_Witness ==
    /\ Sorted("stringify")
    /\ Len(imports) = 3
    /\ imports[1] = imports[3]
    /\ imports[1] # imports[2]

\* C9 as claimed: with describe_input, build_pipeline returns without any
\* step one tuple per module of the pipe that declares a prompt, sorted by
\* position.
Count(list, t) == Cardinality({i \in DOMAIN list : list[i] = t})
IsSortedByPosition(list) ==
    \A i, j \in DOMAIN list : i < j => list[i][1] <= list[j][1]
DescribeReturned == backend = "build" /\ describe_input /\ pc = "done"

C10_StepsReadAfterAssembly ==
    backend = "build" =>
        /\ error # "KeyError"
        /\ returned \notin pipe.embed

====
